---- MODULE Spec2Model ----
(***************************************************************************)
(* Model of netlify/functions/jarvis-stream.ts: the serverless handler and *)
(* its line-delimited JSON encoder, the client decoder                     *)
(* getJarvisResponseStream, and the speech-utterance queue of useJarvis.   *)
(*                                                                         *)
(* Three specifications share the module:                                  *)
(*   SpecSpeech   the utterance queue (speak, cancelSpeech, processQueue)  *)
(*                against the browser's speech-synthesis engine;           *)
(*   SpecStream   one request: handler, encoder, transport, decoder;       *)
(*   SpecDecoder  the decoder alone, on any body text.                     *)
(* Text is a sequence of characters, each a string; bytes are integers.    *)
(***************************************************************************)
EXTENDS Integers, Sequences, FiniteSets, TLC

VARIABLES
  \* ---- useJarvis: speech synthesis ----
  isBrowserSupported,  \* line 105
  eagerSpeaking,       \* engine build: does speechSynthesis.speaking turn true
                       \* when an utterance is handed over (TRUE) or only when it
                       \* has begun being spoken (FALSE, the W3C wording)
  isSpeaking,          \* useState, line 98
  utteranceQueue,      \* utteranceQueueRef.current, line 102
  isCanceling,         \* isCancelingRef.current, line 103
  engine,              \* window.speechSynthesis: utterances handed over, not yet
                       \* ended, failed or cancelled; the head is the one playing
  cancelEvents,        \* error events the engine still owes for cancelled utterances
  created,             \* number of SpeechSynthesisUtterance objects built so far
  dispatched,          \* history: ids passed to window.speechSynthesis.speak, in order
  completed,           \* history: ids whose end or error callback has run
  discarded,           \* history: ids dropped from the pending sequence by cancelSpeech
  errorLog,            \* history: console.error calls of utterance.onerror
  everCancelled,       \* history: cancelSpeech has run (supported browser)
  cancelledActive,     \* history: ids that were being spoken when cancelSpeech ran
                       \* with a non-empty pending sequence
  lastOp,              \* history: the operation of the last step and its argument
  \* ---- useSpeech: recognition ----
  isListening,         \* useState, line 97
  recognitions,        \* the SpeechRecognition objects built so far, in order, each
                       \* with the state of its session: "starting" (start() called),
                       \* "listening" (start fired), "stopping" (stop() called),
                       \* "failed" (error fired, end owed), "ended"
  recognitionRef,      \* recognitionRef.current, line 100: an index, 0 for null
  \* ---- handler and its ReadableStream (server) ----
  request,             \* the HandlerEvent: httpMethod and body
  providerFails,       \* whether ai.models.generateContentStream rejects this request
  response,            \* what the handler returned: statusCode and body
  upstream,            \* geminiStream: the chunks it will produce and how it ends
  upIdx,               \* chunks the for-await loop has taken so far
  pcEnc,               \* position of ReadableStream.start: "idle", "loop", "done"
  streamState,         \* the ReadableStream: "none", "readable", "closed", "errored"
  written,             \* history: the byte chunks passed to controller.enqueue
  \* ---- transport ----
  wire,                \* bytes of the body on their way, not yet read by the client
  sent,                \* history: every byte of the body put on the wire so far
  \* ---- getJarvisResponseStream (client) ----
  pcDec,               \* "fetch", "reading", "done" (returned), "threw"
  utf8Pending,         \* TextDecoderStream: bytes of an incomplete character
  buffer,              \* line 157
  yielded,             \* history: the values the generator has yielded, in order
  parseErrors,         \* history: number of console.error calls (lines 166, 183)
  splitMidRecord,      \* history: some fragment ended inside a line
  lineItems,           \* the lines the body was made of, when it is given as text
  fetchCalls,          \* history: number of fetch calls made, line 141
  bodyRead             \* history: how the response body was consumed: "none",
                       \* "text" (response.text(), line 148), "reader" (line 156)

speechVars == <<isBrowserSupported, eagerSpeaking, isSpeaking, utteranceQueue,
                isCanceling, engine, cancelEvents, created, dispatched, completed,
                discarded, errorLog, everCancelled, cancelledActive, lastOp>>

serverVars == <<request, providerFails, response, upstream, upIdx, pcEnc, streamState, written>>

decoderVars == <<wire, sent, pcDec, utf8Pending, buffer, yielded, parseErrors,
                 splitMidRecord, lineItems, fetchCalls, bodyRead>>

streamVars == <<serverVars, decoderVars>>

listenVars == <<isListening, recognitions, recognitionRef>>

vars == <<speechVars, streamVars, listenVars>>

\* ------------------------------------------------------------------ bounds
\* speak calls that build an utterance, per run
MaxSpeak == 3

\* ------------------------------------------------------------------ text helpers
SP == " "
NL == "\n"

\* String.prototype.trim on the characters the model uses
RECURSIVE TrimStart(_)
TrimStart(s) ==
  IF s # <<>> /\ Head(s) \in {SP, NL} THEN TrimStart(Tail(s)) ELSE s

RECURSIVE TrimEnd(_)
TrimEnd(s) ==
  IF s # <<>> /\ s[Len(s)] \in {SP, NL} THEN TrimEnd(SubSeq(s, 1, Len(s) - 1)) ELSE s

Trim(s) == TrimEnd(TrimStart(s))

\* ------------------------------------------------------------------ speech queue
\* texts handed to speak: empty, whitespace only, plain, padded
SpeakTexts == {<<>>, <<SP>>, <<"a">>, <<SP, "a">>}

\* window.speechSynthesis.speaking as processQueue reads it (line 191). The Web
\* Speech API defines it as true once an utterance "has begun being spoken and
\* has not completed"; some engines report true as soon as an utterance is
\* queued. eagerSpeaking selects between the two. After cancel() the engine's
\* queue is empty and the attribute is false.
Speaking(eng) ==
  /\ eng # <<>>
  /\ (Head(eng).started \/ eagerSpeaking)

\* ProcessQueue as it would be without line 196: the marker survives a dispatch
ProcessQueue_KeepMarker(q, canc, eng) ==
  IF Speaking(eng) \/ Len(q) = 0
  THEN /\ utteranceQueue' = q
       /\ isCanceling' = canc
       /\ engine' = eng
       /\ dispatched' = dispatched
  ELSE /\ utteranceQueue' = Tail(q)
       /\ isCanceling' = canc
       /\ engine' = Append(eng, [id |-> Head(q).id, started |-> FALSE])
       /\ dispatched' = Append(dispatched, Head(q).id)

\* processQueue, entered with the current values of the two refs and the engine
ProcessQueue(q, canc, eng) ==
  IF Speaking(eng) \/ Len(q) = 0
  THEN /\ utteranceQueue' = q
       /\ isCanceling' = canc
       /\ engine' = eng
       /\ dispatched' = dispatched
  ELSE /\ utteranceQueue' = Tail(q)
       /\ isCanceling' = FALSE
       /\ engine' = Append(eng, [id |-> Head(q).id, started |-> FALSE])
       /\ dispatched' = Append(dispatched, Head(q).id)

\* speak as it would be with an emptiness test in place of text.trim()
speak_NoTrim(text) ==
  /\ created < MaxSpeak \/ ~isBrowserSupported \/ text = <<>>
  /\ lastOp' = [op |-> "speak", text |-> text]
  /\ IF ~isBrowserSupported \/ text = <<>>
     THEN UNCHANGED <<utteranceQueue, isCanceling, engine, dispatched, created>>
     ELSE /\ created' = created + 1
          /\ ProcessQueue(Append(utteranceQueue, [id |-> created + 1, text |-> text]),
                          isCanceling, engine)
  /\ UNCHANGED <<isBrowserSupported, eagerSpeaking, isSpeaking, cancelEvents,
                 completed, discarded, errorLog, everCancelled, cancelledActive>>

\* speak(text), lines 201-236
speak(text) ==
  /\ created < MaxSpeak \/ ~isBrowserSupported \/ Trim(text) = <<>>
  /\ lastOp' = [op |-> "speak", text |-> text]
  /\ IF ~isBrowserSupported \/ Trim(text) = <<>>
     THEN UNCHANGED <<utteranceQueue, isCanceling, engine, dispatched, created>>
     ELSE /\ created' = created + 1
          /\ ProcessQueue(Append(utteranceQueue, [id |-> created + 1, text |-> text]),
                          isCanceling, engine)
  /\ UNCHANGED <<isBrowserSupported, eagerSpeaking, isSpeaking, cancelEvents,
                 completed, discarded, errorLog, everCancelled, cancelledActive>>

Speak ==
  /\ \E text \in SpeakTexts : speak(text)
  /\ UNCHANGED <<streamVars, listenVars>>

\* error kind the engine reports for an utterance removed by cancel()
CancelKind(e) == IF e.started THEN "interrupted" ELSE "canceled"

\* cancelSpeech(), lines 238-245
cancelSpeech ==
  /\ lastOp' = [op |-> "cancelSpeech", text |-> <<>>]
  /\ IF isBrowserSupported
     THEN /\ isCanceling' = TRUE
          /\ utteranceQueue' = <<>>
          /\ discarded' = discarded \cup {utteranceQueue[i].id : i \in DOMAIN utteranceQueue}
          /\ engine' = <<>>
          /\ cancelEvents' = cancelEvents \o
                [i \in DOMAIN engine |-> [id |-> engine[i].id, kind |-> CancelKind(engine[i])]]
          /\ isSpeaking' = FALSE
          /\ everCancelled' = TRUE
          /\ cancelledActive' = cancelledActive \cup
                {engine[i].id : i \in {j \in DOMAIN engine :
                                        engine[j].started /\ utteranceQueue # <<>>}}
     ELSE UNCHANGED <<isCanceling, utteranceQueue, discarded, engine, cancelEvents,
                      isSpeaking, everCancelled, cancelledActive>>
  /\ UNCHANGED <<isBrowserSupported, eagerSpeaking, created, dispatched, completed,
                 errorLog>>
  /\ UNCHANGED <<streamVars, listenVars>>

\* utterance.onstart, line 208: the engine begins speaking the head of its queue
onstart ==
  /\ engine # <<>>
  /\ ~Head(engine).started
  /\ engine' = [engine EXCEPT ![1].started = TRUE]
  /\ isSpeaking' = TRUE
  /\ lastOp' = [op |-> "onstart", text |-> <<>>]
  /\ UNCHANGED <<isBrowserSupported, eagerSpeaking, utteranceQueue, isCanceling,
                 cancelEvents, created, dispatched, completed, discarded, errorLog,
                 everCancelled, cancelledActive>>
  /\ UNCHANGED <<streamVars, listenVars>>

\* Advance as it would be if the callbacks only reset isSpeaking once the pending
\* sequence is empty and never called processQueue
Advance_NoDispatch(canc, eng) ==
  /\ isSpeaking' = (IF Len(utteranceQueue) > 0 THEN isSpeaking ELSE FALSE)
  /\ utteranceQueue' = utteranceQueue
  /\ isCanceling' = canc
  /\ engine' = eng
  /\ dispatched' = dispatched

\* the tail shared by onend and onerror, lines 211-215 and 227-231
Advance(canc, eng) ==
  IF Len(utteranceQueue) > 0
  THEN /\ ProcessQueue(utteranceQueue, canc, eng)
       /\ isSpeaking' = isSpeaking
  ELSE /\ isSpeaking' = FALSE
       /\ utteranceQueue' = utteranceQueue
       /\ isCanceling' = canc
       /\ engine' = eng
       /\ dispatched' = dispatched

\* utterance.onend, lines 210-216: the utterance being spoken finishes
onend ==
  /\ engine # <<>>
  /\ Head(engine).started
  /\ completed' = completed \cup {Head(engine).id}
  /\ Advance(isCanceling, Tail(engine))
  /\ lastOp' = [op |-> "onend", text |-> <<>>]
  /\ UNCHANGED <<isBrowserSupported, eagerSpeaking, cancelEvents, created, discarded,
                 errorLog, everCancelled, cancelledActive>>
  /\ UNCHANGED <<streamVars, listenVars>>

\* onerror as it would be if only onend advanced the queue: the error handler
\* logs or suppresses, resets isSpeaking and leaves the pending sequence alone
onerror_NoAdvance(id, kind, eng) ==
  /\ IF kind = "interrupted" /\ isCanceling
     THEN /\ errorLog' = errorLog
          /\ isCanceling' = FALSE
     ELSE /\ errorLog' = Append(errorLog, [id |-> id, kind |-> kind])
          /\ isCanceling' = isCanceling
  /\ isSpeaking' = FALSE
  /\ utteranceQueue' = utteranceQueue
  /\ engine' = eng
  /\ dispatched' = dispatched
  /\ completed' = completed \cup {id}
  /\ UNCHANGED <<isBrowserSupported, eagerSpeaking, created, discarded, everCancelled,
                 cancelledActive>>

\* utterance.onerror, lines 218-232, for utterance id with error code kind
onerror(id, kind, eng) ==
  /\ IF kind = "interrupted" /\ isCanceling
     THEN /\ errorLog' = errorLog
          /\ Advance(FALSE, eng)
     ELSE /\ errorLog' = Append(errorLog, [id |-> id, kind |-> kind])
          /\ Advance(isCanceling, eng)
  /\ completed' = completed \cup {id}
  /\ UNCHANGED <<isBrowserSupported, eagerSpeaking, created, discarded, everCancelled,
                 cancelledActive>>

\* the engine fails the utterance at the head of its queue
onerrorFailed ==
  /\ engine # <<>>
  /\ onerror(Head(engine).id, "synthesis-failed", Tail(engine))
  /\ lastOp' = [op |-> "onerror", text |-> <<>>]
  /\ UNCHANGED cancelEvents
  /\ UNCHANGED <<streamVars, listenVars>>

\* the engine delivers the error event it owes for a cancelled utterance
onerrorCancelled ==
  /\ cancelEvents # <<>>
  /\ onerror(Head(cancelEvents).id, Head(cancelEvents).kind, engine)
  /\ cancelEvents' = Tail(cancelEvents)
  /\ lastOp' = [op |-> "onerror", text |-> <<>>]
  /\ UNCHANGED <<streamVars, listenVars>>

\* no request in progress
StreamIdle ==
  /\ request = [httpMethod |-> "none"]
  /\ providerFails = FALSE
  /\ response = [statusCode |-> 0]
  /\ upstream = [chunks |-> <<>>, raises |-> FALSE]
  /\ upIdx = 0
  /\ pcEnc = "idle"
  /\ streamState = "none"
  /\ written = <<>>
  /\ wire = <<>>
  /\ sent = <<>>
  /\ pcDec = "fetch"
  /\ utf8Pending = <<>>
  /\ buffer = <<>>
  /\ yielded = <<>>
  /\ parseErrors = 0
  /\ splitMidRecord = FALSE
  /\ lineItems = <<>>
  /\ fetchCalls = 0
  /\ bodyRead = "none"

InitSpeech ==
  /\ StreamIdle
  /\ isBrowserSupported \in BOOLEAN
  /\ eagerSpeaking \in BOOLEAN
  /\ isSpeaking = FALSE
  /\ utteranceQueue = <<>>
  /\ isCanceling = FALSE
  /\ engine = <<>>
  /\ cancelEvents = <<>>
  /\ created = 0
  /\ dispatched = <<>>
  /\ completed = {}
  /\ discarded = {}
  /\ errorLog = <<>>
  /\ everCancelled = FALSE
  /\ cancelledActive = {}
  /\ lastOp = [op |-> "init", text |-> <<>>]
  /\ isListening = FALSE
  /\ recognitions = <<>>
  /\ recognitionRef = 0

NextSpeech ==
  \/ Speak
  \/ cancelSpeech
  \/ onstart
  \/ onend
  \/ onerrorFailed
  \/ onerrorCancelled

SpecSpeech == InitSpeech /\ [][NextSpeech]_vars

\* the speech queue with an engine that keeps going: an utterance at the head of
\* the engine's queue is eventually started, a started one eventually reports
\* its end unless it fails or is cancelled first, and the error event owed for a
\* cancelled utterance is eventually delivered
SpecSpeechFair ==
  /\ InitSpeech
  /\ [][NextSpeech]_vars
  /\ WF_vars(onstart)
  /\ WF_vars(onend)
  /\ WF_vars(onerrorCancelled)

\* ------------------------------------------------------------------ recognition
\* SpeechRecognition objects built, per run
MaxListen == 2

\* the synthesis side of the hook, which the recognition side only reads
synthVars == <<isBrowserSupported, eagerSpeaking, isSpeaking, utteranceQueue,
               isCanceling, engine, cancelEvents, created, dispatched, completed,
               discarded, errorLog, everCancelled, cancelledActive>>

\* a session start() was called on that has reported neither end nor error
Active(st) == st \in {"starting", "listening", "stopping"}

\* startListening(onResultCallback), lines 113-137
startListening ==
  /\ Len(recognitions) < MaxListen \/ isListening \/ isSpeaking \/ ~isBrowserSupported
  /\ lastOp' = [op |-> "startListening", text |-> <<>>]
  /\ IF isListening \/ isSpeaking \/ ~isBrowserSupported
     THEN UNCHANGED <<recognitions, recognitionRef>>
     ELSE /\ recognitions' = Append(recognitions, "starting")
          /\ recognitionRef' = Len(recognitions) + 1
  /\ UNCHANGED isListening
  /\ UNCHANGED <<synthVars, streamVars>>

\* stopListening(), lines 107-111: stop() on the object the ref holds; a
\* session that is over ignores it
stopListening ==
  /\ lastOp' = [op |-> "stopListening", text |-> <<>>]
  /\ IF recognitionRef # 0 /\ Active(recognitions[recognitionRef])
     THEN recognitions' = [recognitions EXCEPT ![recognitionRef] = "stopping"]
     ELSE UNCHANGED recognitions
  /\ UNCHANGED <<isListening, recognitionRef>>
  /\ UNCHANGED <<synthVars, streamVars>>

\* recognition.onstart, line 122: the engine has begun listening for session i
recognition_onstart ==
  /\ \E i \in DOMAIN recognitions :
       /\ recognitions[i] = "starting"
       /\ recognitions' = [recognitions EXCEPT ![i] = "listening"]
  /\ isListening' = TRUE
  /\ lastOp' = [op |-> "recognition.onstart", text |-> <<>>]
  /\ UNCHANGED recognitionRef
  /\ UNCHANGED <<synthVars, streamVars>>

\* recognition.onerror, lines 125-128: session i fails; its end event follows
recognition_onerror ==
  /\ \E i \in DOMAIN recognitions :
       /\ recognitions[i] \in {"starting", "listening"}
       /\ recognitions' = [recognitions EXCEPT ![i] = "failed"]
  /\ isListening' = FALSE
  /\ lastOp' = [op |-> "recognition.onerror", text |-> <<>>]
  /\ UNCHANGED recognitionRef
  /\ UNCHANGED <<synthVars, streamVars>>

\* recognition.onend, line 123: session i is over, after a result or silence,
\* after stop(), or after its error
recognition_onend ==
  /\ \E i \in DOMAIN recognitions :
       /\ recognitions[i] \in {"listening", "stopping", "failed"}
       /\ recognitions' = [recognitions EXCEPT ![i] = "ended"]
  /\ isListening' = FALSE
  /\ lastOp' = [op |-> "recognition.onend", text |-> <<>>]
  /\ UNCHANGED recognitionRef
  /\ UNCHANGED <<synthVars, streamVars>>

NextListen ==
  \/ Speak
  \/ cancelSpeech
  \/ onstart
  \/ onend
  \/ onerrorFailed
  \/ onerrorCancelled
  \/ startListening
  \/ stopListening
  \/ recognition_onstart
  \/ recognition_onerror
  \/ recognition_onend

\* the whole hook: synthesis and recognition together
SpecListen == InitSpeech /\ [][NextListen]_vars

\* ------------------------------------------------------------------ wire text
Q == "\""
BSL == "\\"
\* U+00E9, the one character of the model that takes two bytes in UTF-8
EAcute == "U+00E9"
\* U+FFFD, what a UTF-8 decoder emits for bytes that form no character
Replacement == "U+FFFD"

AsciiChars == {"{", "}", Q, "t", ":", BSL, "n", "a", "x", SP, NL}

\* the UTF-8 code unit of an ASCII character
Code(c) ==
  CASE c = "{" -> 123 [] c = "}" -> 125 [] c = Q -> 34 [] c = "t" -> 116
    [] c = ":" -> 58 [] c = BSL -> 92 [] c = "n" -> 110 [] c = "a" -> 97
    [] c = "x" -> 120 [] c = SP -> 32 [] c = NL -> 10

\* the ASCII character of a code unit
CharOf == [b \in {Code(c) : c \in AsciiChars} |-> CHOOSE c \in AsciiChars : Code(c) = b]

\* TextEncoder.encode, line 58
RECURSIVE Utf8Encode(_)
Utf8Encode(text) ==
  IF text = <<>> THEN <<>>
  ELSE (IF Head(text) = EAcute THEN <<195, 169>> ELSE <<Code(Head(text))>>)
         \o Utf8Encode(Tail(text))

\* TextDecoderStream (line 156) on one more byte: the characters it emits and
\* the bytes it keeps for the next call
DecodeByte(pending, b) ==
  IF pending = <<>>
  THEN IF b < 128
       THEN [text |-> <<CharOf[b]>>, pending |-> <<>>]
       ELSE IF b >= 194 /\ b <= 223
            THEN [text |-> <<>>, pending |-> <<b>>]
            ELSE [text |-> <<Replacement>>, pending |-> <<>>]
  ELSE IF b >= 128 /\ b <= 191
       THEN [text |-> <<IF pending = <<195>> /\ b = 169 THEN EAcute ELSE Replacement>>,
             pending |-> <<>>]
       ELSE IF b < 128
            THEN [text |-> <<Replacement, CharOf[b]>>,
                  pending |-> <<>>]
            ELSE [text |-> <<Replacement>>, pending |-> <<b>>]

\* TextDecoderStream on one fragment of bytes
RECURSIVE DecodeBytes(_, _)
DecodeBytes(pending, bytes) ==
  IF bytes = <<>> THEN [text |-> <<>>, pending |-> pending]
  ELSE LET d == DecodeByte(pending, Head(bytes))
           r == DecodeBytes(d.pending, Tail(bytes))
       IN  [text |-> d.text \o r.text, pending |-> r.pending]

\* ------------------------------------------------------------------ JSON
\* A StreamChunk is a record with one text field t; cyclic marks a value
\* JSON.stringify throws on (one that refers to itself).
Record(text) == [t |-> text, cyclic |-> FALSE]

Unserializable == [t |-> <<>>, cyclic |-> TRUE]

\* EscapeChar as it would be if a newline were written raw
EscapeChar_RawNewline(c) ==
  IF c = Q THEN <<BSL, Q>>
  ELSE IF c = BSL THEN <<BSL, BSL>>
  ELSE <<c>>

\* JSON.stringify of one character of a string
EscapeChar(c) ==
  IF c = Q THEN <<BSL, Q>>
  ELSE IF c = BSL THEN <<BSL, BSL>>
  ELSE IF c = NL THEN <<BSL, "n">>
  ELSE <<c>>

RECURSIVE Escape(_)
Escape(text) ==
  IF text = <<>> THEN <<>> ELSE EscapeChar(Head(text)) \o Escape(Tail(text))

\* JSON.stringify(chunk), line 57
Stringify(chunk) == <<"{", Q, "t", Q, ":", Q>> \o Escape(chunk.t) \o <<Q, "}">>

\* the inside of a JSON string literal, unescaped; ok is FALSE on a raw quote, a
\* raw control character, an unknown escape or a backslash at the end
RECURSIVE Unescape(_)
Unescape(body) ==
  IF body = <<>> THEN [ok |-> TRUE, text |-> <<>>]
  ELSE IF Head(body) = BSL
       THEN IF Len(body) < 2 \/ body[2] \notin {Q, BSL, "n"}
            THEN [ok |-> FALSE, text |-> <<>>]
            ELSE LET r == Unescape(SubSeq(body, 3, Len(body)))
                 IN  [ok |-> r.ok,
                      text |-> <<IF body[2] = "n" THEN NL ELSE body[2]>> \o r.text]
       ELSE IF Head(body) \in {Q, NL}
            THEN [ok |-> FALSE, text |-> <<>>]
            ELSE LET r == Unescape(Tail(body))
                 IN  [ok |-> r.ok, text |-> <<Head(body)>> \o r.text]

\* JSON.parse(line), lines 164 and 181, on the texts of the model: a record is
\* {"t":"..."} with optional whitespace around it; anything else is a SyntaxError
Parse(line) ==
  LET s == Trim(line)
  IN  IF /\ Len(s) >= 8
         /\ SubSeq(s, 1, 6) = <<"{", Q, "t", Q, ":", Q>>
         /\ SubSeq(s, Len(s) - 1, Len(s)) = <<Q, "}">>
      THEN LET u == Unescape(SubSeq(s, 7, Len(s) - 2))
           IN  [ok |-> u.ok, value |-> Record(u.text)]
      ELSE [ok |-> FALSE, value |-> Record(<<>>)]

\* ------------------------------------------------------------------ decoder
\* buffer.split('\n'), line 173
RECURSIVE Split(_)
Split(s) ==
  IF s = <<>> THEN << <<>> >>
  ELSE LET r == Split(Tail(s))
       IN  IF Head(s) = NL THEN << <<>> >> \o r
           ELSE << <<Head(s)>> \o r[1] >> \o Tail(r)

\* NewBuffer as it would be if the partial last line were forgotten
NewBuffer_Dropped(lines) == <<>>

\* buffer = lines.pop() || '', line 176
NewBuffer(lines) == lines[Len(lines)]

\* YieldLines as it would be without the try/catch: a line that does not
\* parse ends the loop with an exception
RECURSIVE YieldLines_Abort(_)
YieldLines_Abort(lines) ==
  IF lines = <<>> THEN [yielded |-> <<>>, errors |-> 0, threw |-> FALSE]
  ELSE IF Trim(Head(lines)) = <<>> THEN YieldLines_Abort(Tail(lines))
  ELSE IF Parse(Head(lines)).ok
       THEN LET r == YieldLines_Abort(Tail(lines))
            IN  [yielded |-> <<Parse(Head(lines)).value>> \o r.yielded,
                 errors |-> r.errors, threw |-> r.threw]
       ELSE [yielded |-> <<>>, errors |-> 0, threw |-> TRUE]

\* the for loop over the complete lines, lines 178-186: what it yields, how
\* many lines it reports as unparseable, and whether an exception leaves it
RECURSIVE YieldLines(_)
YieldLines(lines) ==
  IF lines = <<>> THEN [yielded |-> <<>>, errors |-> 0, threw |-> FALSE]
  ELSE LET r == YieldLines(Tail(lines))
       IN  IF Trim(Head(lines)) = <<>> THEN r
           ELSE IF Parse(Head(lines)).ok
                THEN [r EXCEPT !.yielded = <<Parse(Head(lines)).value>> \o @]
                ELSE [r EXCEPT !.errors = @ + 1]

\* ProcessFragment as it would be if line 176 were missing: the lines are
\* yielded but everything received stays in the buffer
ProcessFragment_KeepAll(buf, value) ==
  LET lines == Split(buf \o value)
      r == YieldLines(SubSeq(lines, 1, Len(lines) - 1))
  IN  [buffer |-> buf \o value, yielded |-> r.yielded, errors |-> r.errors,
       threw |-> r.threw]

\* one pass of the while loop on a fragment, lines 172-186
ProcessFragment(buf, value) ==
  LET lines == Split(buf \o value)
      r == YieldLines(SubSeq(lines, 1, Len(lines) - 1))
  IN  [buffer |-> NewBuffer(lines), yielded |-> r.yielded, errors |-> r.errors,
       threw |-> r.threw]

\* Finish as it would be if the buffer were ignored at the end of the stream
Finish_Ignored(buf) == [yielded |-> <<>>, errors |-> 0]

\* the done branch, lines 161-169
Finish(buf) ==
  IF Trim(buf) = <<>> THEN [yielded |-> <<>>, errors |-> 0]
  ELSE IF Parse(buf).ok THEN [yielded |-> <<Parse(buf).value>>, errors |-> 0]
  ELSE [yielded |-> <<>>, errors |-> 1]

\* reader.read() resolves with a fragment: the next n bytes of the body
ReadFragment ==
  /\ pcDec = "reading"
  /\ wire # <<>>
  /\ \E n \in 1..Len(wire) :
       LET d == DecodeBytes(utf8Pending, SubSeq(wire, 1, n))
           r == ProcessFragment(buffer, d.text)
       IN  /\ wire' = SubSeq(wire, n + 1, Len(wire))
           /\ utf8Pending' = d.pending
           /\ IF d.text = <<>>
              THEN UNCHANGED <<buffer, yielded, parseErrors, pcDec, splitMidRecord>>
              ELSE /\ buffer' = r.buffer
                   /\ yielded' = yielded \o r.yielded
                   /\ parseErrors' = parseErrors + r.errors
                   /\ pcDec' = IF r.threw THEN "threw" ELSE "reading"
                   /\ splitMidRecord' = (splitMidRecord \/ r.buffer # <<>>)
  /\ UNCHANGED <<sent, lineItems, fetchCalls, bodyRead>>
  /\ UNCHANGED <<serverVars, speechVars, listenVars>>

\* reader.read() resolves with done: the body was closed and is used up
ReadDone ==
  /\ pcDec = "reading"
  /\ wire = <<>>
  /\ streamState = "closed"
  /\ LET flush == IF utf8Pending = <<>> THEN <<>> ELSE <<Replacement>>
         r == ProcessFragment(buffer, flush)
         f == Finish(r.buffer)
     IN  /\ utf8Pending' = <<>>
         /\ buffer' = r.buffer
         /\ yielded' = yielded \o r.yielded \o f.yielded
         /\ parseErrors' = parseErrors + r.errors + f.errors
         /\ pcDec' = IF r.threw THEN "threw" ELSE "done"
  /\ UNCHANGED <<wire, sent, splitMidRecord, lineItems, fetchCalls, bodyRead>>
  /\ UNCHANGED <<serverVars, speechVars, listenVars>>

\* ------------------------------------------------------------------ decoder alone
\* lines a body is made of, per run
MaxLines == 3

\* a line of a body: a record as the encoder writes it (plain, or with an
\* escaped newline and a two-byte character), a line that is not JSON (a record
\* cut short), or a blank line (empty, a space)
LineItems ==
  {[kind |-> "record", value |-> v, text |-> Stringify(v)] :
      v \in {Record(<<"a">>), Record(<<NL, EAcute>>)}}
  \cup {[kind |-> "malformed", value |-> Record(<<>>),
         text |-> <<"{", Q, "t", Q, ":", Q, "a">>]}
  \cup {[kind |-> "blank", value |-> Record(<<>>), text |-> <<>>],
        [kind |-> "blank", value |-> Record(<<>>), text |-> <<SP>>]}

\* the lines joined by single newlines: the last one has no newline after it
RECURSIVE Join(_)
Join(items) ==
  IF items = <<>> THEN <<>>
  ELSE IF Len(items) = 1 THEN items[1].text
  ELSE items[1].text \o <<NL>> \o Join(Tail(items))

\* a 200 response whose body is any text of up to MaxLines lines, all of it on
\* the wire and closed; the decoder is about to read (line 156)
InitDecoder ==
  /\ isBrowserSupported = TRUE
  /\ eagerSpeaking = FALSE
  /\ isSpeaking = FALSE
  /\ utteranceQueue = <<>>
  /\ isCanceling = FALSE
  /\ engine = <<>>
  /\ cancelEvents = <<>>
  /\ created = 0
  /\ dispatched = <<>>
  /\ completed = {}
  /\ discarded = {}
  /\ errorLog = <<>>
  /\ everCancelled = FALSE
  /\ cancelledActive = {}
  /\ lastOp = [op |-> "init", text |-> <<>>]
  /\ isListening = FALSE
  /\ recognitions = <<>>
  /\ recognitionRef = 0
  /\ request = [httpMethod |-> "none"]
  /\ providerFails = FALSE
  /\ response = [statusCode |-> 200]
  /\ upstream = [chunks |-> <<>>, raises |-> FALSE]
  /\ upIdx = 0
  /\ pcEnc = "done"
  /\ streamState = "closed"
  /\ written = <<>>
  /\ \E n \in 0..MaxLines : lineItems \in [1..n -> LineItems]
  /\ sent = Utf8Encode(Join(lineItems))
  /\ wire = sent
  /\ pcDec = "reading"
  /\ utf8Pending = <<>>
  /\ buffer = <<>>
  /\ yielded = <<>>
  /\ parseErrors = 0
  /\ splitMidRecord = FALSE
  /\ fetchCalls = 1
  /\ bodyRead = "reader"

NextDecoder ==
  \/ ReadFragment
  \/ ReadDone

SpecDecoder == InitDecoder /\ [][NextDecoder]_vars

\* ------------------------------------------------------------------ handler
\* chunks the upstream sequence produces, per request
MaxChunks == 2

\* history in the body: absent, a list of messages, a list holding null
Histories ==
  {[present |-> FALSE, items |-> <<>>],
   [present |-> TRUE, items |-> <<[null |-> FALSE, role |-> "user", text |-> "hello"]>>],
   [present |-> TRUE, items |-> <<[null |-> TRUE, role |-> "none", text |-> "none"]>>]}

NoHistory == [present |-> FALSE, items |-> <<>>]

\* event.body: absent, the empty string, text that is not JSON, the JSON text
\* null, or a JSON object with or without message and history
Bodies ==
  {[kind |-> k, message |-> "absent", history |-> NoHistory] :
      k \in {"absent", "empty", "garbage", "null"}}
  \cup {[kind |-> "object", message |-> m, history |-> h] :
          m \in {"absent", "empty", "text"}, h \in Histories}

Requests == {[httpMethod |-> m, body |-> b] : m \in {"GET", "POST"}, b \in Bodies}

\* const { history, message } = JSON.parse(event.body || '{}'), line 29: ok is
\* FALSE when JSON.parse or the destructuring throws
ParseBody(body) ==
  IF body.kind \in {"absent", "empty"}
  THEN [ok |-> TRUE, message |-> "absent", history |-> NoHistory]
  ELSE IF body.kind \in {"garbage", "null"}
  THEN [ok |-> FALSE, message |-> "absent", history |-> NoHistory]
  ELSE [ok |-> TRUE, message |-> body.message, history |-> body.history]

\* toGeminiHistory, lines 16-21: ok is FALSE when messages.map or msg.role throws
toGeminiHistory(messages) ==
  IF ~messages.present \/ \E i \in DOMAIN messages.items : messages.items[i].null
  THEN [ok |-> FALSE, contents |-> <<>>]
  ELSE [ok |-> TRUE,
        contents |-> [i \in DOMAIN messages.items |->
                        [role |-> messages.items[i].role,
                         parts |-> <<messages.items[i].text>>]]]

\* the values the provider's chunks take: three records, and one value that
\* JSON.stringify throws on
ChunkValues ==
  {Record(<<"a">>), Record(<<Q, BSL>>), Record(<<NL, EAcute>>), Unserializable}

\* what ai.models.generateContentStream can return: the chunks of the sequence,
\* and whether it raises after the last of them instead of ending
Upstreams ==
  {[chunks |-> c, raises |-> r] :
      c \in UNION {[1..n -> ChunkValues] : n \in 0..MaxChunks}, r \in BOOLEAN}

\* Respond as it would be if history were converted before message is tested
Respond_HistoryFirst(req, providerRaises) ==
  IF req.httpMethod # "POST" THEN [statusCode |-> 405, body |-> "Method Not Allowed"]
  ELSE IF ~ParseBody(req.body).ok THEN [statusCode |-> 500, body |-> "error message"]
  ELSE IF ~toGeminiHistory(ParseBody(req.body).history).ok
  THEN [statusCode |-> 500, body |-> "error message"]
  ELSE IF ParseBody(req.body).message \in {"absent", "empty"}
  THEN [statusCode |-> 400, body |-> "empty message"]
  ELSE IF providerRaises THEN [statusCode |-> 500, body |-> "error message"]
  ELSE [statusCode |-> 200, body |-> "stream"]

\* what handler returns, lines 23-86; providerRaises tells whether
\* generateContentStream rejects when it is reached
Respond(req, providerRaises) ==
  IF req.httpMethod # "POST" THEN [statusCode |-> 405, body |-> "Method Not Allowed"]
  ELSE IF ~ParseBody(req.body).ok THEN [statusCode |-> 500, body |-> "error message"]
  ELSE IF ParseBody(req.body).message \in {"absent", "empty"}
  THEN [statusCode |-> 400, body |-> "empty message"]
  ELSE IF ~toGeminiHistory(ParseBody(req.body).history).ok
  THEN [statusCode |-> 500, body |-> "error message"]
  ELSE IF providerRaises THEN [statusCode |-> 500, body |-> "error message"]
  ELSE [statusCode |-> 200, body |-> "stream"]

\* handler(event), lines 23-86
handler ==
  /\ response.statusCode = 0
  /\ response' = Respond(request, providerFails)
  /\ lastOp' = [op |-> "handler", text |-> <<>>]
  /\ IF Respond(request, providerFails).statusCode = 200
     THEN /\ \E up \in Upstreams : upstream' = up
          /\ streamState' = "readable"
          /\ pcEnc' = "loop"
     ELSE UNCHANGED <<upstream, streamState, pcEnc>>
  /\ UNCHANGED <<request, providerFails, upIdx, written, decoderVars>>
  /\ UNCHANGED <<isBrowserSupported, eagerSpeaking, isSpeaking, utteranceQueue,
                 isCanceling, engine, cancelEvents, created, dispatched, completed,
                 discarded, errorLog, everCancelled, cancelledActive>>
  /\ UNCHANGED listenVars

\* ------------------------------------------------------------------ encoder
\* controller.error(e): a readable stream becomes errored
ControllerError(st) == IF st = "readable" THEN "errored" ELSE st

\* controller.close(): a readable stream becomes closed; on any other stream it
\* throws a TypeError, which rejects start() and leaves the stream as it is
ControllerClose(st) == IF st = "readable" THEN "closed" ELSE st

\* CatchAndClose as it would be if the error were logged and not passed to
\* the controller
CatchAndClose_Swallowed(st) == ControllerClose(st)

\* the catch block followed by controller.close(), lines 60-66
CatchAndClose(st) == ControllerClose(ControllerError(st))

\* the lines of a sequence of serializable chunks, one after the other
RECURSIVE LinesOf(_)
LinesOf(chunks) ==
  IF chunks = <<>>
  THEN <<>>
  ELSE Utf8Encode(Stringify(Head(chunks)) \o <<NL>>) \o LinesOf(Tail(chunks))

\* EncodeChunk as it would be if the loop collected the lines and enqueued
\* them in one write when it takes the last chunk
EncodeChunk_Batched ==
  /\ pcEnc = "loop"
  /\ upIdx < Len(upstream.chunks)
  /\ upIdx' = upIdx + 1
  /\ IF upstream.chunks[upIdx + 1].cyclic
     THEN /\ streamState' = CatchAndClose(streamState)
          /\ pcEnc' = "done"
          /\ UNCHANGED <<written, wire, sent>>
     ELSE IF upIdx + 1 < Len(upstream.chunks)
     THEN UNCHANGED <<written, wire, sent, streamState, pcEnc>>
     ELSE LET bytes == LinesOf(SubSeq(upstream.chunks, 1, upIdx + 1))
          IN  /\ written' = Append(written, bytes)
              /\ wire' = wire \o bytes
              /\ sent' = sent \o bytes
              /\ UNCHANGED <<streamState, pcEnc>>
  /\ UNCHANGED <<request, providerFails, response, upstream>>
  /\ UNCHANGED <<pcDec, utf8Pending, buffer, yielded, parseErrors, splitMidRecord,
                 lineItems, fetchCalls, bodyRead>>
  /\ UNCHANGED <<speechVars, listenVars>>

\* one pass of the for-await loop, lines 53-59: the next chunk is stringified
\* and enqueued with its newline, or JSON.stringify throws into the catch block
EncodeChunk ==
  /\ pcEnc = "loop"
  /\ upIdx < Len(upstream.chunks)
  /\ upIdx' = upIdx + 1
  /\ IF upstream.chunks[upIdx + 1].cyclic
     THEN /\ streamState' = CatchAndClose(streamState)
          /\ pcEnc' = "done"
          /\ UNCHANGED <<written, wire, sent>>
     ELSE LET bytes == Utf8Encode(Stringify(upstream.chunks[upIdx + 1]) \o <<NL>>)
          IN  /\ written' = Append(written, bytes)
              /\ wire' = wire \o bytes
              /\ sent' = sent \o bytes
              /\ UNCHANGED <<streamState, pcEnc>>
  /\ UNCHANGED <<request, providerFails, response, upstream>>
  /\ UNCHANGED <<pcDec, utf8Pending, buffer, yielded, parseErrors, splitMidRecord,
                 lineItems, fetchCalls, bodyRead>>
  /\ UNCHANGED <<speechVars, listenVars>>

\* the upstream sequence ends: the loop exits and the stream is closed, line 66
UpstreamEnds ==
  /\ pcEnc = "loop"
  /\ upIdx = Len(upstream.chunks)
  /\ ~upstream.raises
  /\ streamState' = ControllerClose(streamState)
  /\ pcEnc' = "done"
  /\ UNCHANGED <<request, providerFails, response, upstream, upIdx, written, decoderVars>>
  /\ UNCHANGED <<speechVars, listenVars>>

\* the upstream sequence raises: the catch block runs, then line 66
UpstreamRaises ==
  /\ pcEnc = "loop"
  /\ upIdx = Len(upstream.chunks)
  /\ upstream.raises
  /\ streamState' = CatchAndClose(streamState)
  /\ pcEnc' = "done"
  /\ UNCHANGED <<request, providerFails, response, upstream, upIdx, written, decoderVars>>
  /\ UNCHANGED <<speechVars, listenVars>>

\* ------------------------------------------------------------------ client
\* the response is ok, line 147
Ok(resp) == resp.statusCode >= 200 /\ resp.statusCode <= 299

\* FetchResolves as it would be with one automatic retry of a failed request
FetchResolves_Retry ==
  /\ pcDec = "fetch"
  /\ response.statusCode # 0
  /\ IF Ok(response)
     THEN /\ pcDec' = "reading"
          /\ bodyRead' = "reader"
          /\ fetchCalls' = fetchCalls
     ELSE IF fetchCalls < 2
     THEN /\ pcDec' = "fetch"
          /\ bodyRead' = bodyRead
          /\ fetchCalls' = fetchCalls + 1
     ELSE /\ pcDec' = "threw"
          /\ bodyRead' = "text"
          /\ fetchCalls' = fetchCalls
  /\ UNCHANGED <<wire, sent, utf8Pending, buffer, yielded, parseErrors, splitMidRecord,
                 lineItems>>
  /\ UNCHANGED <<serverVars, speechVars, listenVars>>

\* await fetch(...) resolves, lines 141-156: a response that is not ok has its
\* body read as text for the message of the error the generator throws, any
\* other has its body piped to a reader and the read loop starts
FetchResolves ==
  /\ pcDec = "fetch"
  /\ response.statusCode # 0
  /\ IF Ok(response)
     THEN /\ pcDec' = "reading"
          /\ bodyRead' = "reader"
     ELSE /\ pcDec' = "threw"
          /\ bodyRead' = "text"
  /\ UNCHANGED <<wire, sent, utf8Pending, buffer, yielded, parseErrors, splitMidRecord,
                 lineItems, fetchCalls>>
  /\ UNCHANGED <<serverVars, speechVars, listenVars>>

\* ReadError as it would be if a failed read were taken for the end of the body:
\* the done branch of lines 161-169 runs and the generator returns
ReadError_AsDone ==
  /\ pcDec = "reading"
  /\ streamState = "errored"
  /\ yielded' = yielded \o Finish(buffer).yielded
  /\ parseErrors' = parseErrors + Finish(buffer).errors
  /\ pcDec' = "done"
  /\ UNCHANGED <<wire, sent, utf8Pending, buffer, splitMidRecord, lineItems, fetchCalls,
                 bodyRead>>
  /\ UNCHANGED <<serverVars, speechVars, listenVars>>

\* reader.read() rejects because the body stream is errored, line 160
ReadError ==
  /\ pcDec = "reading"
  /\ streamState = "errored"
  /\ pcDec' = "threw"
  /\ UNCHANGED <<wire, sent, utf8Pending, buffer, yielded, parseErrors, splitMidRecord,
                 lineItems, fetchCalls, bodyRead>>
  /\ UNCHANGED <<serverVars, speechVars, listenVars>>

\* a request has reached the handler; nothing else has happened
InitStream ==
  /\ isBrowserSupported = TRUE
  /\ eagerSpeaking = FALSE
  /\ isSpeaking = FALSE
  /\ utteranceQueue = <<>>
  /\ isCanceling = FALSE
  /\ engine = <<>>
  /\ cancelEvents = <<>>
  /\ created = 0
  /\ dispatched = <<>>
  /\ completed = {}
  /\ discarded = {}
  /\ errorLog = <<>>
  /\ everCancelled = FALSE
  /\ cancelledActive = {}
  /\ lastOp = [op |-> "init", text |-> <<>>]
  /\ isListening = FALSE
  /\ recognitions = <<>>
  /\ recognitionRef = 0
  /\ request \in Requests
  /\ providerFails \in BOOLEAN
  /\ response = [statusCode |-> 0]
  /\ upstream = [chunks |-> <<>>, raises |-> FALSE]
  /\ upIdx = 0
  /\ pcEnc = "idle"
  /\ streamState = "none"
  /\ written = <<>>
  /\ wire = <<>>
  /\ sent = <<>>
  /\ pcDec = "fetch"
  /\ utf8Pending = <<>>
  /\ buffer = <<>>
  /\ yielded = <<>>
  /\ parseErrors = 0
  /\ splitMidRecord = FALSE
  /\ lineItems = <<>>
  /\ fetchCalls = 1
  /\ bodyRead = "none"

NextStream ==
  \/ handler
  \/ EncodeChunk
  \/ UpstreamEnds
  \/ UpstreamRaises
  \/ FetchResolves
  \/ ReadFragment
  \/ ReadDone
  \/ ReadError

SpecStream == InitStream /\ [][NextStream]_vars

\* ------------------------------------------------------------------ claims: handler and encoder

\* C1: round trip: the chunks of the upstream sequence, written by the encoder
\* as JSON lines and read back by getJarvisResponseStream in fragments cut at
\* any byte, are what the decoder has yielded when it returns: the same
\* chunks, as many, in the same order, with no line reported unparseable.
C1_RoundTrip ==
  pcDec = "done" => (yielded = upstream.chunks /\ parseErrors = 0)

\* C1 witness: the decoder returned after two different chunks, one of them
\* holding a newline, with at least one fragment that ended inside a line.
C1_Witness ==
  /\ pcDec = "done"
  /\ Len(upstream.chunks) = 2
  /\ upstream.chunks[1] # upstream.chunks[2]
  /\ \E i \in DOMAIN upstream.chunks : \E k \in DOMAIN upstream.chunks[i].t :
        upstream.chunks[i].t[k] = NL
  /\ splitMidRecord

\* the upstream sequence raises, or one of its chunks cannot be serialized
UpstreamFails ==
  upstream.raises \/ \E i \in DOMAIN upstream.chunks : upstream.chunks[i].cyclic

\* C5: when the upstream sequence raises or a chunk cannot be serialized, the
\* response stream is never closed cleanly and is errored once start() is
\* over, and what has been written is always a whole number of lines: it is
\* empty or ends with a newline.
C5_EncoderFailure ==
  UpstreamFails =>
    /\ streamState # "closed"
    /\ pcEnc = "done" => streamState = "errored"
    /\ sent = <<>> \/ sent[Len(sent)] = Code(NL)
    /\ \A i \in DOMAIN written : written[i][Len(written[i])] = Code(NL)

\* C5 witness: start() is over after a failure that followed a written chunk.
C5_Witness ==
  /\ UpstreamFails
  /\ pcEnc = "done"
  /\ streamState = "errored"
  /\ Len(written) >= 1

\* C10: every request gets one result: 405 when the method is not POST,
\* whatever the body; for a POST, 500 with an error message when the body does
\* not parse, 400 when the message is empty or missing, 500 with an error
\* message when the history is unusable or the provider call raises, and 200
\* with a streamed body otherwise.
C10_HttpOutcomes ==
  response.statusCode # 0 =>
    LET b == request.body
        unparseable == b.kind \in {"garbage", "null"}
        noMessage == b.kind \in {"absent", "empty"} \/ b.message \in {"absent", "empty"}
        badHistory == ~b.history.present
                        \/ \E i \in DOMAIN b.history.items : b.history.items[i].null
    IN  IF request.httpMethod # "POST" THEN response.statusCode = 405
        ELSE IF unparseable
        THEN response.statusCode = 500 /\ response.body = "error message"
        ELSE IF noMessage THEN response.statusCode = 400
        ELSE IF badHistory \/ providerFails
        THEN response.statusCode = 500 /\ response.body = "error message"
        ELSE /\ response.statusCode = 200
             /\ response.body = "stream"
             /\ streamState # "none"

\* C10 witness: a POST whose body parses, with an empty message and no history,
\* has been answered.
C10_Witness ==
  /\ response.statusCode # 0
  /\ request.httpMethod = "POST"
  /\ request.body.kind = "object"
  /\ request.body.message = "empty"
  /\ ~request.body.history.present

\* ------------------------------------------------------------------ claims: decoder

\* what getJarvisResponseStream yields when the whole body arrives as one fragment
WholeYield(bytes) ==
  LET d == DecodeBytes(<<>>, bytes)
      r == ProcessFragment(<<>>, d.text)
  IN  r.yielded \o Finish(r.buffer).yielded

\* the values of the record lines among items, in order
RECURSIVE RecordValues(_)
RecordValues(items) ==
  IF items = <<>> THEN <<>>
  ELSE (IF Head(items).kind = "record" THEN <<Head(items).value>> ELSE <<>>)
         \o RecordValues(Tail(items))

\* the kinds of the lines that are not blank, in order
RECURSIVE NonBlankKinds(_)
NonBlankKinds(items) ==
  IF items = <<>> THEN <<>>
  ELSE (IF Head(items).kind = "blank" THEN <<>> ELSE <<Head(items).kind>>)
         \o NonBlankKinds(Tail(items))

\* C2: fragmentation independence: however the body is cut into fragments, the
\* decoder has yielded, when it returns, exactly what it yields for the same
\* body read as a single fragment.
C2_FragmentationIndependence ==
  pcDec = "done" => yielded = WholeYield(sent)

\* C2 witness: the decoder returned after a body with a blank line, a malformed
\* line and a record, having read at least one fragment that ended inside a line.
C2_Witness ==
  /\ pcDec = "done"
  /\ splitMidRecord
  /\ \E i, j, k \in DOMAIN lineItems :
        /\ lineItems[i].kind = "blank"
        /\ lineItems[j].kind = "malformed"
        /\ lineItems[k].kind = "record"
  /\ yielded # <<>>

\* C3: malformed-line resilience: the decoder never raises on a line that does
\* not parse, and for a body holding a record, a non-JSON line and a record (in
\* that order, blank lines aside) it returns having yielded the two records in
\* order and nothing for the malformed line.
C3_MalformedLineSkipped ==
  /\ pcDec # "threw"
  /\ (pcDec = "done" /\ NonBlankKinds(lineItems) = <<"record", "malformed", "record">>)
        => (yielded = RecordValues(lineItems) /\ Len(yielded) = 2 /\ parseErrors = 1)

\* C3 witness: the decoder returned after a record, a malformed line and a
\* different record, read in more than one fragment.
C3_Witness ==
  /\ pcDec = "done"
  /\ Len(lineItems) = 3
  /\ NonBlankKinds(lineItems) = <<"record", "malformed", "record">>
  /\ lineItems[1].value # lineItems[3].value
  /\ splitMidRecord

\* C4: trailing record without newline: when the stream ends, text left in the
\* buffer that is a record is yielded last, after the records of all complete
\* lines; when the buffer is empty or whitespace only nothing more is yielded.
C4_TrailingRecord ==
  (pcDec = "done" /\ lineItems # <<>>) =>
    LET last == lineItems[Len(lineItems)]
        before == RecordValues(SubSeq(lineItems, 1, Len(lineItems) - 1))
    IN  /\ last.kind = "record" => yielded = before \o <<last.value>>
        /\ last.kind = "blank" => yielded = before

\* C4 witness: the decoder returned after a body whose last line is a record
\* with no newline after it, preceded by a complete record line.
C4_Witness ==
  /\ pcDec = "done"
  /\ Len(lineItems) >= 2
  /\ lineItems[Len(lineItems)].kind = "record"
  /\ lineItems[1].kind = "record"
  /\ Len(yielded) >= 2

\* ------------------------------------------------------------------ claims: speech queue

\* C6 (as claimed): at most one utterance has been handed to
\* window.speechSynthesis.speak without having since reported end or error or
\* been cancelled, in every state reachable by speak, cancelSpeech and the engine
\* callbacks.
C6_OneUtteranceAtATime == Len(engine) <= 1

\* C7 (as claimed): with no cancel, utterances are dispatched in the order of
\* their speak calls, and each one only after every utterance dispatched before
\* it has reported end or error.
C7_QueueFIFO ==
  ~everCancelled =>
    /\ \A i, j \in DOMAIN dispatched : i < j => dispatched[i] < dispatched[j]
    /\ \A i \in DOMAIN dispatched : i < Len(dispatched) => dispatched[i] \in completed

\* C8 (as claimed): cancelSpeech returns with an empty pending sequence and
\* isSpeaking false, a discarded pending utterance is never dispatched, and the
\* error callback of an utterance that was being spoken when cancelSpeech ran
\* with others pending is never logged as an error.
C8_Cancellation ==
  /\ (lastOp.op = "cancelSpeech" /\ isBrowserSupported) =>
        (utteranceQueue = <<>> /\ ~isSpeaking)
  /\ \A i \in DOMAIN dispatched : dispatched[i] \notin discarded
  /\ \A i \in DOMAIN errorLog : errorLog[i].id \notin cancelledActive

\* C9: a speak call whose text is empty or whitespace only changes nothing: the
\* pending sequence, the cancellation marker, isSpeaking and the engine stay as
\* they were, and no utterance is built or dispatched.
C9_BlankSpeakNoOp ==
  [][(lastOp'.op = "speak" /\ Trim(lastOp'.text) = <<>>) =>
        UNCHANGED <<utteranceQueue, isCanceling, isSpeaking, engine, cancelEvents,
                    created, dispatched>>]_vars

\* C9 witness: a whitespace-only speak has just run in a supported browser while
\* an utterance was playing and another was pending.
C9_Witness ==
  /\ isBrowserSupported
  /\ lastOp.op = "speak"
  /\ lastOp.text = <<SP>>
  /\ engine # <<>>
  /\ utteranceQueue # <<>>

\* C11 (as claimed): an error callback of a cancelled utterance that arrives
\* while the cancellation marker is set is not logged and clears the marker; an
\* error callback that arrives while the marker is clear is logged; and every
\* error that is not logged consumes the marker, so one cancelSpeech suppresses
\* at most one error.
C11_MarkerConsumedOnce ==
  [][lastOp'.op = "onerror" =>
        /\ (isCanceling /\ cancelEvents' # cancelEvents) =>
              (errorLog' = errorLog /\ ~isCanceling')
        /\ ~isCanceling => Len(errorLog') = Len(errorLog) + 1
        /\ errorLog' = errorLog => (isCanceling /\ ~isCanceling')]_vars

\* C12: when the engine reports end or error for the utterance at the head of
\* its queue, the same callback removes the head of a non-empty pending sequence
\* and hands it to the engine, leaving isSpeaking as it was, and with an empty
\* pending sequence it sets isSpeaking false and dispatches nothing; a
\* synthesis failure advances exactly as an end does.
C12_CompletionAdvances ==
  [][(lastOp'.op \in {"onend", "onerror"} /\ engine # <<>> /\ cancelEvents' = cancelEvents) =>
        /\ completed' = completed \cup {Head(engine).id}
        /\ IF utteranceQueue # <<>>
           THEN /\ utteranceQueue' = Tail(utteranceQueue)
                /\ dispatched' = Append(dispatched, Head(utteranceQueue).id)
                /\ engine' = Append(Tail(engine),
                                    [id |-> Head(utteranceQueue).id, started |-> FALSE])
                /\ isSpeaking' = isSpeaking
           ELSE /\ isSpeaking' = FALSE
                /\ utteranceQueue' = <<>>
                /\ dispatched' = dispatched
                /\ engine' = Tail(engine)]_vars

\* C12 witness: a synthesis failure of the playing utterance has just handed the
\* next pending utterance to the engine while a third is still pending.
C12_Witness ==
  /\ lastOp.op = "onerror"
  /\ errorLog # <<>>
  /\ errorLog[Len(errorLog)].kind = "synthesis-failed"
  /\ errorLog[Len(errorLog)].id \in completed
  /\ isSpeaking
  /\ engine # <<>>
  /\ dispatched # <<>>
  /\ dispatched[Len(dispatched)] = engine[Len(engine)].id
  /\ dispatched[Len(dispatched)] > errorLog[Len(errorLog)].id
  /\ utteranceQueue # <<>>

\* C18 (as claimed): isSpeaking is true in every state where an utterance has
\* fired its start callback and has neither ended, failed nor been cancelled,
\* and no callback of another utterance sets isSpeaking false while that
\* utterance is playing.
C18_IsSpeakingTracksActive ==
  (engine # <<>> /\ Head(engine).started) => isSpeaking

\* C19: processQueue clears the cancellation marker whenever it dispatches an
\* utterance; an error callback goes unlogged only when it is the one the engine
\* owes for an utterance that a cancelSpeech call removed from it, with the
\* marker set; and an error of an utterance that is still in the engine, so was
\* dispatched after the last cancelSpeech, is always logged.
C19_StaleMarkerHidesNothing ==
  /\ [][Len(dispatched') > Len(dispatched) => ~isCanceling']_vars
  /\ [][(lastOp'.op = "onerror" /\ errorLog' = errorLog) =>
          /\ cancelEvents # <<>>
          /\ cancelEvents' = Tail(cancelEvents)
          /\ Head(cancelEvents).id \notin {engine[i].id : i \in DOMAIN engine}
          /\ isCanceling]_vars
  /\ [][(lastOp'.op = "onerror" /\ cancelEvents' = cancelEvents) =>
          /\ engine # <<>>
          /\ errorLog' = Append(errorLog, [id |-> Head(engine).id,
                                           kind |-> "synthesis-failed"])]_vars

\* C19 witness: cancelSpeech ran while nothing was playing, a later speak
\* dispatched an utterance, and that utterance's failure has just been logged.
C19_Witness ==
  /\ everCancelled
  /\ cancelEvents = <<>>
  /\ completed = {1}
  /\ lastOp.op = "onerror"
  /\ errorLog = <<[id |-> 1, kind |-> "synthesis-failed"]>>
  /\ ~isCanceling

\* utterance id is in the pending sequence
Pending(id) == \E i \in DOMAIN utteranceQueue : utteranceQueue[i].id = id

\* utterance id has been handed to the engine
Dispatched(id) == \E i \in DOMAIN dispatched : dispatched[i] = id

\* C17: with an engine that eventually fires start and end or error for every
\* utterance handed to it, a pending sequence is never non-empty while the engine
\* holds no utterance, and every utterance that enters the pending sequence is
\* eventually dispatched to the engine or discarded by cancelSpeech.
C17_NoUtteranceStranded ==
  /\ [](utteranceQueue # <<>> => engine # <<>>)
  /\ \A id \in 1..MaxSpeak : Pending(id) ~> (Dispatched(id) \/ id \in discarded)

\* C17 witness: the second utterance waited in the pending sequence while the
\* first played, then was dispatched by the first one's end callback, and a
\* third is waiting now.
C17_Witness ==
  /\ ~everCancelled
  /\ eagerSpeaking
  /\ dispatched = <<1, 2>>
  /\ completed = {1}
  /\ errorLog = <<>>
  /\ Pending(3)

\* ------------------------------------------------------------------ claims: client and stream

\* the bytes of the body the reader has been given so far
Received == SubSeq(sent, 1, Len(sent) - Len(wire))

\* the number of line ends among the bytes received so far
LinesReceived == Cardinality({i \in DOMAIN Received : Received[i] = Code(NL)})

\* C13: when the encoder puts the response stream in the error state,
\* getJarvisResponseStream never returns normally; once it has raised, what it
\* has yielded is exactly the chunks whose lines it received whole, in order,
\* and the partial line left in the buffer has not been yielded.
C13_BrokenStream ==
  (response.statusCode = 200 /\ UpstreamFails) =>
    /\ pcDec # "done"
    /\ pcDec = "threw" =>
          /\ streamState = "errored"
          /\ yielded = SubSeq(upstream.chunks, 1, LinesReceived)
          /\ parseErrors = 0

\* C13 witness: the generator has raised on an errored stream after yielding one
\* record, with a part of the next line in its buffer.
C13_Witness ==
  /\ pcDec = "threw"
  /\ streamState = "errored"
  /\ Len(yielded) = 1
  /\ buffer # <<>>
  /\ Len(written) = 2

\* C14 (as claimed): once a response that is not ok has resolved the fetch,
\* getJarvisResponseStream has raised, has yielded nothing, has read nothing of
\* the response body, and has sent its request exactly once.
C14_TransportFailure ==
  (pcDec # "fetch" /\ ~Ok(response)) =>
    /\ pcDec = "threw"
    /\ yielded = <<>>
    /\ bodyRead = "none"
    /\ fetchCalls = 1

\* C14 (amended): once a response that is not ok has resolved the fetch,
\* getJarvisResponseStream has raised, has yielded nothing, has sent its request
\* exactly once, and has read the body only as the text of its error message:
\* no reader was taken, no fragment decoded and no line parsed.
C14_TransportFailureBodyAsText ==
  (pcDec # "fetch" /\ ~Ok(response)) =>
    /\ pcDec = "threw"
    /\ yielded = <<>>
    /\ bodyRead = "text"
    /\ buffer = <<>>
    /\ parseErrors = 0
    /\ fetchCalls = 1

\* C14 witness: the handler answered 500 and the generator has raised.
C14_Witness ==
  /\ response.statusCode = 500
  /\ pcDec = "threw"
  /\ bodyRead = "text"

\* the text the TextDecoderStream has produced from the bytes received so far
ReceivedText == DecodeBytes(<<>>, Received).text

\* the part of s after its last newline: empty when s ends with one, all of s
\* when it has none
RECURSIVE AfterLastNewline(_)
AfterLastNewline(s) ==
  IF s = <<>> \/ s[Len(s)] = NL
  THEN <<>>
  ELSE Append(AfterLastNewline(SubSeq(s, 1, Len(s) - 1)), s[Len(s)])

\* C15: whenever the decoder is about to read a fragment, its buffer holds no
\* newline and is exactly the text received after the last newline received.
C15_LineBuffer ==
  pcDec = "reading" =>
    /\ \A i \in DOMAIN buffer : buffer[i] # NL
    /\ buffer = AfterLastNewline(ReceivedText)

\* C15 witness: the decoder is about to read again with a part of a line in its
\* buffer, after a fragment that also completed a line it yielded.
C15_Witness ==
  /\ pcDec = "reading"
  /\ wire # <<>>
  /\ yielded # <<>>
  /\ buffer # <<>>
  /\ Len(buffer) < Len(ReceivedText)

\* the buffer is empty because the text received so far ends with a newline
C15_WitnessEmpty ==
  /\ pcDec = "reading"
  /\ wire # <<>>
  /\ ReceivedText # <<>>
  /\ ReceivedText[Len(ReceivedText)] = NL
  /\ buffer = <<>>

\* C16: every chunk the encoder's loop has taken has had its line written by
\* the time the loop asks for the next one, the i-th write is exactly the line
\* of the i-th chunk, and the stream is closed only once the upstream sequence
\* has been taken to its end and has ended without raising.
C16_NoBatching ==
  /\ pcEnc = "loop" => Len(written) = upIdx
  /\ Len(written) <= upIdx
  /\ \A i \in DOMAIN written :
        written[i] = Utf8Encode(Stringify(upstream.chunks[i]) \o <<NL>>)
  /\ streamState = "closed" =>
        (pcEnc = "done" /\ upIdx = Len(upstream.chunks) /\ ~upstream.raises
           /\ Len(written) = Len(upstream.chunks))

\* C16 witness: two different chunks went out as two writes and the stream was
\* closed after the second.
C16_Witness ==
  /\ response.statusCode = 200
  /\ Len(written) = 2
  /\ written[1] # written[2]
  /\ streamState = "closed"

\* ------------------------------------------------------------------ claims: recognition

\* C20 (as claimed): startListening never builds and starts a recognition
\* session while an earlier one has had start() called and has reported neither
\* end nor error, nor while an utterance is being spoken; and after a
\* recognition end or error callback isListening is false.
C20_SingleRecognitionSession ==
  /\ [][Len(recognitions') > Len(recognitions) =>
          /\ \A i \in DOMAIN recognitions : ~Active(recognitions[i])
          /\ ~(engine # <<>> /\ Head(engine).started)]_vars
  /\ [](lastOp.op \in {"recognition.onend", "recognition.onerror"} => ~isListening)

====
